---- MODULE Spec2Model ----
(***************************************************************************)
(* PostedIn: the post store (internal/scheduler), the timer-based          *)
(* auto-publish engine (internal/cron) and the HTTP handlers that drive    *)
(* them (internal/api), as one state machine.                              *)
(*                                                                         *)
(* Time is an absolute instant (Go's time.Time); a zone only matters when  *)
(* a wall-clock string is parsed.  The store's slice is modelled with its  *)
(* backing array, because handlers and timer callbacks keep pointers into  *)
(* it (&posts[i]) across later appends and deletes.                        *)
(***************************************************************************)
EXTENDS Integers, Sequences, FiniteSets, Bags, TLC

\* ---- bounds of the model ------------------------------------------------
MaxId == 2
MaxTime == 2
MaxCalls == 2
MaxInvoked == 2
MaxRequests == 4

\* ---- program constants ----------------------------------------------------
statusScheduled == "scheduled"
statusPosted == "posted"
statusFailed == "failed"

Ids == 1..MaxId
Times == 0..MaxTime
Contents == {"good", "bad"}
Zones == {"UTC", "Asia/Bangkok"}
InvalidZone == "Mars/Olympus"

\* time.LoadLocation: the zone's offset from UTC, in the model's time unit.
Offset(loc) == IF loc = "UTC" THEN 0 ELSE 1

\* The zero value of models.Post (a slot of the backing array never written).
ZeroPost ==
  [ID |-> 0, Content |-> "", ScheduledAt |-> 0, Status |-> "", CronEntryID |-> 0]

VARIABLES
  backing,       \* the array behind Scheduler.Posts (Len = capacity)
  length,        \* len(Scheduler.Posts)
  nextID,        \* Scheduler.nextID
  disk,          \* the posts file as last written by savePosts
  running,       \* cron.Scheduler.running
  timers,        \* bag of time.AfterFunc timers; inMap: held by cs.timers[key]
  calls,         \* bag of PublishToLinkedIn calls blocked in CreatePost
  now,           \* the wall clock (an instant)
  location,      \* config.Timezone.Location
  cronEnabled,   \* config.Cron.Enabled
  perIteration,  \* the build: range loop variable per iteration (Go >= 1.22) or shared
  invoked,       \* history: CreatePost invocations per post id (saturating)
  issued,        \* history: the ids AddPost has handed out, in order
  deletedLive,   \* history: ids deleted while scheduled with an armed entry
  requests,      \* history: requests served so far (the model's horizon)
  adds,          \* bag of AddPost calls that have read and not yet written
  threads        \* bag of goroutines inside a function of the engine

vars ==
  <<backing, length, nextID, disk, running, timers, calls, now, location,
    cronEnabled, perIteration, invoked, issued, deletedLive, requests, adds,
    threads>>

\* ---- the store: internal/scheduler/scheduler.go ----------------------------

\* Scheduler.Posts: the first `length` slots of the backing array.
PostsOf(b, n) == SubSeq(b, 1, n)
Posts == PostsOf(backing, length)

\* Index of the first post with this id in b[1..n], 0 when absent
\* (the `for i, post := range s.Posts` lookups).
IndexIn(b, n, id) ==
  IF \E i \in 1..n : b[i].ID = id
    THEN CHOOSE i \in 1..n : b[i].ID = id /\ \A j \in 1..(i - 1) : b[j].ID # id
    ELSE 0
IndexOf(id) == IndexIn(backing, length, id)

Zeros(k) == [i \in 1..k |-> ZeroPost]

\* append(s.Posts, post): in place while capacity lasts, else a new array of
\* doubled capacity (the old array keeps its contents).
GrowCap(c) == IF c = 0 THEN 1 ELSE 2 * c
AppendReallocates(b, n) == n >= Len(b)
AppendPost(b, n, post) ==
  IF AppendReallocates(b, n)
    THEN PostsOf(b, n) \o <<post>> \o Zeros(GrowCap(Len(b)) - n - 1)
    ELSE [b EXCEPT ![n + 1] = post]

\* append(s.Posts[:i], s.Posts[i+1:]...): shifts left inside the same array;
\* the slot that held the last post keeps its old value.
RemoveAt(b, n, i) ==
  [j \in 1..Len(b) |-> IF j >= i /\ j < n THEN b[j + 1] ELSE b[j]]

\* UpdatePostCronEntry(id, cronEntryID) on array b; unchanged if id is absent.
SetCronEntry(b, n, id, v) ==
  LET i == IndexIn(b, n, id)
  IN  IF i = 0 THEN b ELSE [b EXCEPT ![i].CronEntryID = v]

\* The test of GetDuePosts with Before in the place of !After.
IsDueBefore(p, t) == p.Status = statusScheduled /\ p.ScheduledAt < t

\* GetDuePosts: scheduled and !ScheduledAt.After(now), in slice order.
IsDue(p, t) == p.Status = statusScheduled /\ ~(p.ScheduledAt > t)
GetDuePosts == SelectSeq(Posts, LAMBDA p : IsDue(p, now))

\* Config.ParseTimeInTimezone: a wall-clock reading taken in the configured zone.
ParseTimeInTimezone(wall, loc) == wall - Offset(loc)

\* ---- the engine: internal/cron (timers and their map) ------------------------

\* The bag B without the elements outside S.
Restrict(B, S) == [e \in S |-> B[e]]
One(x) == SetToBag({x})

\* A timer made by time.AfterFunc in schedulePost:
\*   key    post.ID when it was armed (its key in cs.timers)
\*   at     the instant it is due (now + timeUntil)
\*   pk,pv  the `post` pointer its callback closes over: a value whose ID is
\*          fixed ("id"), or a slot of the store's current array ("slot")
\*   inMap  cs.timers[key] is this timer
\*   st     "armed", or "fired" once the runtime has started its callback
NewTimer(key, at, pk, pv) ==
  [key |-> key, at |-> at, pk |-> pk, pv |-> pv, inMap |-> TRUE, st |-> "armed"]

\* post.ID read through the callback's pointer.
ReadID(b, pk, pv) == IF pk = "id" THEN pv ELSE b[pv].ID

\* delete(cs.timers, key), and the overwrite done by cs.timers[key] = ...:
\* the entry goes, the timer it held is not stopped.
DeleteEntry(T, key) ==
  LET unmapped(t) == IF t.inMap /\ t.key = key THEN [t EXCEPT !.inMap = FALSE] ELSE t
      T1 == BagOfAll(unmapped, T)
  IN  Restrict(T1, {t \in DOMAIN T1 : t.inMap \/ t.st = "armed"})

\* timer.Timer.Stop() followed by delete(cs.timers, key): an armed timer is
\* cancelled, a fired one only leaves the map.
StopEntry(T, key) == Restrict(T, {t \in DOMAIN T : ~(t.inMap /\ t.key = key)})

\* The loop of Stop(): every timer of the map is stopped and the map replaced.
StopAll(T) == Restrict(T, {t \in DOMAIN T : ~t.inMap})

HasEntry(T, key) == \E t \in DOMAIN T : t.inMap /\ t.key = key
\* len(cs.timers)
TimerCount(T) == Cardinality({t \in DOMAIN T : t.inMap})

\* The comparison of schedulePost with After in the place of Before.
SkipsFuture(sched, t) == sched > t

\* The comparison that decides whether schedulePost arms a timer.
SkipsScheduling(sched, t) == sched < t

\* schedulePost(post): post.ID = id, post.ScheduledAt = sched, the closure
\* keeps pointer (pk, pv).  Arms the timer, stores it under id, then
\* UpdatePostCronEntry(id, id).
SchedulePost(T, b, n, id, sched, pk, pv, t) ==
  IF SkipsScheduling(sched, t)
    THEN [timers |-> T, backing |-> b]
    ELSE [timers  |-> DeleteEntry(T, id) (+) One(NewTimer(id, sched, pk, pv)),
          backing |-> SetCronEntry(b, n, id, id)]

\* What the closure of a timer armed inside scheduleAllPendingPosts's range
\* loop reads as post.ID: its own iteration's copy, or (one variable shared
\* by all iterations) the copy of the last element of the slice.
LoopVarID(b, n, i, fresh) == IF fresh THEN b[i].ID ELSE b[n].ID

\* scheduleAllPendingPosts from index i on.
RECURSIVE ScheduleFrom(_, _, _, _, _, _)
ScheduleFrom(i, T, b, n, t, fresh) ==
  IF i > n
    THEN [timers |-> T, backing |-> b]
    ELSE LET p == b[i]
             r == IF p.Status = statusScheduled
                    THEN SchedulePost(T, b, n, p.ID, p.ScheduledAt, "id",
                                      LoopVarID(b, n, i, fresh), t)
                    ELSE [timers |-> T, backing |-> b]
         IN  ScheduleFrom(i + 1, r.timers, r.backing, n, t, fresh)

\* Start() on a stopped engine.
StartResult(T, b, n, t, fresh) == ScheduleFrom(1, T, b, n, t, fresh)

\* The array is replaced (append beyond capacity, DeleteMultiplePosts): pointers
\* held by closures and by calls in flight now refer to the abandoned array,
\* whose ids no longer change and whose writes no longer reach s.Posts.
FreezeTimers(T, b) ==
  BagOfAll(LAMBDA t : IF t.pk = "slot"
                        THEN [t EXCEPT !.pk = "id", !.pv = b[t.pv].ID]
                        ELSE t, T)
FreezeCalls(C, b) ==
  BagOfAll(LAMBDA c : IF c.pk = "slot"
                        THEN [c EXCEPT !.slot = 0, !.pk = "id", !.pv = b[c.pv].ID]
                        ELSE [c EXCEPT !.slot = 0], C)

\* ---- the publisher ----------------------------------------------------------

\* client.CreatePost when the publisher is deterministic: the outcome depends
\* on the content sent alone.
CreatePostOK(content) == content = "good"

\* The outcome of a call in flight under that publisher (the call's pointer
\* still reaches the post whose content it sent).
Outcome(c) == c.slot # 0 /\ CreatePostOK(backing[c.slot].Content)

\* PublishToLinkedIn gets as far as CreatePost: the post is found and scheduled.
CanInvoke(b, n, id) ==
  IndexIn(b, n, id) # 0 /\ b[IndexIn(b, n, id)].Status = statusScheduled

Bump(inv, id) ==
  IF id \in DOMAIN inv
    THEN [inv EXCEPT ![id] = IF @ < MaxInvoked THEN @ + 1 ELSE @]
    ELSE inv

\* A PublishToLinkedIn call blocked in CreatePost: `slot` is its &s.Posts[i]
\* (0: the array it points into is no longer s.Posts), (pk, pv) the closure
\* pointer of the timer callback that made it, `rest` the due posts
\* publishDuePosts has still to publish.
NewCall(origin, b, n, id, pk, pv, rest) ==
  [origin |-> origin, id |-> id, slot |-> IndexIn(b, n, id),
   pk |-> pk, pv |-> pv, rest |-> rest]

\* The end of the timer callback: delete(cs.timers, post.ID) and
\* UpdatePostCronEntry(post.ID, 0), post.ID read again through the pointer.
CallbackCleanup(T, b, n, pk, pv) ==
  LET k == ReadID(b, pk, pv)
  IN  [timers  |-> DeleteEntry(T, k),
       backing |-> SetCronEntry(b, n, k, 0),
       saved   |-> IndexIn(b, n, k) # 0]

\* ---- initial state ------------------------------------------------------------

Init ==
  /\ backing = <<>>
  /\ length = 0
  /\ nextID = 1
  /\ disk = <<>>
  /\ running = FALSE
  /\ timers = EmptyBag
  /\ calls = EmptyBag
  /\ now = 0
  /\ location = "UTC"
  /\ cronEnabled \in BOOLEAN
  /\ perIteration \in BOOLEAN
  /\ invoked = [i \in Ids |-> 0]
  /\ issued = <<>>
  /\ deletedLive = {}
  /\ requests = 0
  /\ adds = EmptyBag
  /\ threads = EmptyBag

\* ---- requests ---------------------------------------------------------------

\* The scheduled_at of a request: absent (""), malformed, or a wall-clock
\* reading; readings are drawn so that the parsed instant lies in Times.
Kinds == {"none", "bad", "ok"}
Walls == 0..(MaxTime + 1)
Readable(wall) == ParseTimeInTimezone(wall, location) \in Times
\* The readings a request of this kind can carry (none unless well formed).
WallsOf(kind) == IF kind = "ok" THEN {w \in Walls : Readable(w)} ELSE {0}

\* validateAndParsePostRequest: both fields present, well formed, and
\* !scheduledAt.Before(now).
ValidRequest(content, kind, sched, t) ==
  content # "" /\ kind = "ok" /\ ~(sched < t)

\* The post createPost takes for the one it has just added: the highest ID.
NewestIndex(b, n) == CHOOSE i \in 1..n : \A j \in 1..n : b[j].ID <= b[i].ID

\* AddNewPost without its test of cs.running and post.Status.
AddNewPostUnguarded(T, b, n, i, isRunning, t) ==
  SchedulePost(T, b, n, b[i].ID, b[i].ScheduledAt, "slot", i, t)

\* AddNewPost(post) with post = &posts[i].
AddNewPost(T, b, n, i, isRunning, t) ==
  IF ~isRunning \/ b[i].Status # statusScheduled
    THEN [timers |-> T, backing |-> b]
    ELSE SchedulePost(T, b, n, b[i].ID, b[i].ScheduledAt, "slot", i, t)

\* One more request is served, within the horizon.
Request == requests < MaxRequests /\ requests' = requests + 1

\* The ids among `ids` whose post is scheduled and has an armed timer in cs.timers.
LiveEntries(T, b, n, ids) ==
  {id \in ids : /\ CanInvoke(b, n, id)
                /\ \E t \in DOMAIN T : t.inMap /\ t.key = id /\ t.st = "armed"}

\* ---- actions: the store's handlers --------------------------------------------

\* POST /posts: Router.createPost (validate, AddPost, AddNewPost on the newest).
CreatePost(content, kind, wall) ==
  LET sched == ParseTimeInTimezone(wall, location)
      post  == [ID |-> nextID, Content |-> content, ScheduledAt |-> sched,
                Status |-> statusScheduled, CronEntryID |-> 0]
      moved == AppendReallocates(backing, length)
      b1    == AppendPost(backing, length, post)
      n1    == length + 1
      T1    == IF moved THEN FreezeTimers(timers, backing) ELSE timers
      r     == AddNewPost(T1, b1, n1, NewestIndex(b1, n1), running, now)
  IN  /\ nextID <= MaxId
      /\ Request
      /\ IF ValidRequest(content, kind, sched, now)
           THEN /\ backing' = r.backing
                /\ length' = n1
                /\ nextID' = nextID + 1
                /\ disk' = PostsOf(r.backing, n1)
                /\ timers' = r.timers
                /\ calls' = IF moved THEN FreezeCalls(calls, backing) ELSE calls
                /\ issued' = Append(issued, nextID)
           ELSE UNCHANGED <<backing, length, nextID, disk, timers, calls, issued>>
      /\ UNCHANGED <<running, now, location, cronEnabled, perIteration, invoked,
                     deletedLive, adds, threads>>

\* The console's "schedule a post": CLI.schedulePost (validate, AddPost,
\* ensureCronRunning, which enables cron and calls Start() on a stopped engine,
\* then AddNewPost on the newest post).
ConsoleSchedulePost(content, kind, wall) ==
  LET sched == ParseTimeInTimezone(wall, location)
      post  == [ID |-> nextID, Content |-> content, ScheduledAt |-> sched,
                Status |-> statusScheduled, CronEntryID |-> 0]
      moved == AppendReallocates(backing, length)
      b1    == AppendPost(backing, length, post)
      n1    == length + 1
      T1    == IF moved THEN FreezeTimers(timers, backing) ELSE timers
      s     == IF running
                 THEN [timers |-> T1, backing |-> b1]
                 ELSE StartResult(T1, b1, n1, now, perIteration)
      r     == AddNewPost(s.timers, s.backing, n1, NewestIndex(s.backing, n1),
                          TRUE, now)
  IN  /\ nextID <= MaxId
      /\ Request
      /\ IF ValidRequest(content, kind, sched, now)
           THEN /\ backing' = r.backing
                /\ length' = n1
                /\ nextID' = nextID + 1
                /\ disk' = PostsOf(r.backing, n1)
                /\ running' = TRUE
                /\ cronEnabled' = (running => cronEnabled)
                /\ timers' = r.timers
                /\ calls' = IF moved THEN FreezeCalls(calls, backing) ELSE calls
                /\ issued' = Append(issued, nextID)
           ELSE UNCHANGED <<backing, length, nextID, disk, running, cronEnabled,
                            timers, calls, issued>>
      /\ UNCHANGED <<now, location, perIteration, invoked, deletedLive, adds, threads>>

\* PUT /posts/:id: Router.updatePost.  The fields are written through
\* &posts[i] as they are read from the request; SavePosts comes last.
UpdatePost(id, content, kind, wall) ==
  LET i  == IndexOf(id)
      b1 == IF content # "" THEN [backing EXCEPT ![i].Content = content] ELSE backing
      b2 == IF kind = "ok"
              THEN [b1 EXCEPT ![i].ScheduledAt = ParseTimeInTimezone(wall, location)]
              ELSE b1
  IN  /\ Request
      /\ IF i = 0
           THEN UNCHANGED <<backing, disk>>
           ELSE /\ backing' = b2
                /\ disk' = IF kind = "bad" THEN disk ELSE PostsOf(b2, length)
      /\ UNCHANGED <<length, nextID, running, timers, calls, now, location,
                     cronEnabled, perIteration, invoked, issued, deletedLive,
                     adds, threads>>

\* DELETE /posts/:id: Router.deletePost -> Scheduler.DeletePost.
DeletePost(id) ==
  LET i  == IndexOf(id)
      b1 == RemoveAt(backing, length, i)
  IN  /\ Request
      /\ IF i = 0
           THEN UNCHANGED <<backing, length, disk>>
           ELSE /\ backing' = b1
                /\ length' = length - 1
                /\ disk' = PostsOf(b1, length - 1)
      /\ deletedLive' = deletedLive \cup LiveEntries(timers, backing, length, {id})
      /\ UNCHANGED <<nextID, running, timers, calls, now, location, cronEnabled,
                     perIteration, invoked, issued, adds, threads>>

\* DELETE /posts: Router.deleteMultiplePosts -> Scheduler.DeleteMultiplePosts:
\* the survivors are copied into a new array of capacity len(s.Posts).
DeleteMultiplePosts(ids) ==
  LET kept == SelectSeq(Posts, LAMBDA p : p.ID \notin ids)
      b1   == kept \o Zeros(length - Len(kept))
  IN  /\ ids # {}
      /\ Request
      /\ backing' = b1
      /\ length' = Len(kept)
      /\ disk' = kept
      /\ timers' = FreezeTimers(timers, backing)
      /\ calls' = FreezeCalls(calls, backing)
      /\ deletedLive' = deletedLive \cup LiveEntries(timers, backing, length, ids)
      /\ UNCHANGED <<nextID, running, now, location, cronEnabled, perIteration,
                     invoked, issued, adds, threads>>

\* The requested ids DeleteMultiplePosts finds no post for (its notFound).
NotFound(b, n, ids) == {id \in ids : IndexIn(b, n, id) = 0}

\* What Router.deleteMultiplePosts answers: DeleteMultiplePosts returns an
\* error when notFound is not empty, and the handler turns any error into a
\* 500 with success false; otherwise 200 with count = len(req.IDs).
DeleteMultipleReply(b, n, ids) ==
  IF NotFound(b, n, ids) # {}
    THEN [status |-> "InternalServerError", success |-> FALSE, count |-> 0]
    ELSE [status |-> "OK", success |-> TRUE, count |-> Cardinality(ids)]

\* Scheduler.MarkAsPosted(id), called by the console for a post GetDuePosts
\* returned and the user confirmed.
MarkAsPosted(id) ==
  LET i  == IndexOf(id)
      b1 == [backing EXCEPT ![i].Status = statusPosted]
  IN  /\ i # 0
      /\ IsDue(backing[i], now)
      /\ Request
      /\ backing' = b1
      /\ disk' = PostsOf(b1, length)
      /\ UNCHANGED <<length, nextID, running, timers, calls, now, location,
                     cronEnabled, perIteration, invoked, issued, deletedLive,
                     adds, threads>>

\* ---- actions: publishing ------------------------------------------------------

\* Position in `ids` of the first post PublishToLinkedIn would send, 0 if none.
FirstInvocable(b, n, ids) ==
  IF \E k \in 1..Len(ids) : CanInvoke(b, n, ids[k])
    THEN CHOOSE k \in 1..Len(ids) :
           CanInvoke(b, n, ids[k]) /\ \A j \in 1..(k - 1) : ~CanInvoke(b, n, ids[j])
    ELSE 0

\* POST /posts/:id/publish: Router.publishPost -> PublishToLinkedIn, up to the
\* point where CreatePost is on the wire.  tokenOK: a valid token was loaded.
PublishPost(id, tokenOK) ==
  /\ BagCardinality(calls) < MaxCalls
  /\ Request
  /\ IF tokenOK /\ CanInvoke(backing, length, id)
       THEN /\ calls' = calls (+)
                         One(NewCall("manual", backing, length, id, "id", 0, <<>>))
            /\ invoked' = Bump(invoked, id)
       ELSE UNCHANGED <<calls, invoked>>
  /\ UNCHANGED <<backing, length, nextID, disk, running, timers, now, location,
                 cronEnabled, perIteration, issued, deletedLive, adds, threads>>

\* POST /posts/publish-due: Router.publishDuePosts, up to its first CreatePost.
PublishDuePosts(tokenOK) ==
  LET due == GetDuePosts
      ids == [k \in 1..Len(due) |-> due[k].ID]
      k   == FirstInvocable(backing, length, ids)
  IN  /\ BagCardinality(calls) < MaxCalls
      /\ Request
      /\ IF tokenOK /\ k # 0
           THEN /\ calls' = calls (+) One(NewCall("due", backing, length, ids[k], "id", 0,
                                                  SubSeq(ids, k + 1, Len(ids))))
                /\ invoked' = Bump(invoked, ids[k])
           ELSE UNCHANGED <<calls, invoked>>
      /\ UNCHANGED <<backing, length, nextID, disk, running, timers, now, location,
                     cronEnabled, perIteration, issued, deletedLive, adds, threads>>

\* A timer comes due: the runtime starts its callback, which reads post.ID and
\* calls publishPost.  If PublishToLinkedIn returns without reaching CreatePost
\* the callback runs to its end at once.
TimerFire(t, tokenOK) ==
  LET T0 == IF t.inMap
              THEN (timers (-) One(t)) (+) One([t EXCEPT !.st = "fired"])
              ELSE timers (-) One(t)
      id == ReadID(backing, t.pk, t.pv)
      r  == CallbackCleanup(T0, backing, length, t.pk, t.pv)
  IN  /\ t \in DOMAIN timers
      /\ t.st = "armed"
      /\ t.at <= now
      /\ BagCardinality(calls) < MaxCalls
      /\ IF tokenOK /\ CanInvoke(backing, length, id)
           THEN /\ calls' = calls (+)
                             One(NewCall("timer", backing, length, id, t.pk, t.pv, <<>>))
                /\ timers' = T0
                /\ invoked' = Bump(invoked, id)
                /\ UNCHANGED <<backing, disk>>
           ELSE /\ timers' = r.timers
                /\ backing' = r.backing
                /\ disk' = IF r.saved THEN PostsOf(r.backing, length) ELSE disk
                /\ UNCHANGED <<calls, invoked>>
      /\ UNCHANGED <<length, nextID, running, now, location, cronEnabled,
                     perIteration, issued, deletedLive, requests, adds, threads>>

\* CreatePost returns (ok: without error): PublishToLinkedIn writes the status
\* through its pointer and saves; then its caller goes on (the timer callback
\* cleans up, publishDuePosts publishes its next due post).
PublishEnd(c, ok, tokenOK) ==
  LET b1   == IF c.slot = 0
                THEN backing
                ELSE [backing EXCEPT ![c.slot].Status =
                                        IF ok THEN statusPosted ELSE statusFailed]
      r    == CallbackCleanup(timers, b1, length, c.pk, c.pv)
      k    == FirstInvocable(b1, length, c.rest)
      more == c.origin = "due" /\ tokenOK /\ k # 0
      C0   == calls (-) One(c)
  IN  /\ c \in DOMAIN calls
      /\ backing' = IF c.origin = "timer" THEN r.backing ELSE b1
      /\ disk' = PostsOf(backing', length)
      /\ timers' = IF c.origin = "timer" THEN r.timers ELSE timers
      /\ IF more
           THEN /\ calls' = C0 (+) One(NewCall("due", b1, length, c.rest[k], "id", 0,
                                               SubSeq(c.rest, k + 1, Len(c.rest))))
                /\ invoked' = Bump(invoked, c.rest[k])
           ELSE /\ calls' = C0
                /\ UNCHANGED invoked
      /\ UNCHANGED <<length, nextID, running, now, location, cronEnabled,
                     perIteration, issued, deletedLive, requests, adds, threads>>

\* ---- actions: the engine --------------------------------------------------------

\* Start() returns the error "cron scheduler is already running".
StartFails(isRunning) == isRunning

\* Start() without its test of cs.running.
StartUnguarded ==
  LET r == StartResult(timers, backing, length, now, perIteration)
  IN  /\ Request
      /\ timers' = r.timers
      /\ backing' = r.backing
      /\ disk' = IF r.timers # timers THEN PostsOf(r.backing, length) ELSE disk
      /\ running' = TRUE
      /\ UNCHANGED <<length, nextID, calls, now, location, cronEnabled, perIteration,
                     invoked, issued, deletedLive, adds, threads>>

\* POST /scheduler/start: Start().  Already running: an error, nothing changes.
Start ==
  LET r == StartResult(timers, backing, length, now, perIteration)
  IN  /\ Request
      /\ IF running
           THEN UNCHANGED <<backing, disk, running, timers>>
           ELSE /\ timers' = r.timers
                /\ backing' = r.backing
                /\ disk' = IF r.timers # timers THEN PostsOf(r.backing, length) ELSE disk
                /\ running' = TRUE
      /\ UNCHANGED <<length, nextID, calls, now, location, cronEnabled, perIteration,
                     invoked, issued, deletedLive, adds, threads>>

\* POST /scheduler/stop: Stop().  cs.cron holds no job, so its Stop() context
\* is done at once.
Stop ==
  /\ Request
  /\ IF running
       THEN /\ timers' = StopAll(timers)
            /\ running' = FALSE
       ELSE UNCHANGED <<timers, running>>
  /\ UNCHANGED <<backing, length, nextID, disk, calls, now, location, cronEnabled,
                 perIteration, invoked, issued, deletedLive, adds, threads>>

\* UpdateConfig(cfg): Stop() if running, then Start() if it was running and
\* cron is enabled.
UpdateConfig(T, b, n, wasRunning, enabled, t, fresh) ==
  LET T1      == IF wasRunning THEN StopAll(T) ELSE T
      restart == wasRunning /\ enabled
      r       == IF restart
                   THEN StartResult(T1, b, n, t, fresh)
                   ELSE [timers |-> T1, backing |-> b]
  IN  [timers |-> r.timers, backing |-> r.backing, running |-> restart]

\* POST /timezone: Router.updateTimezone (Config.UpdateTimezone, SaveConfig,
\* UpdateConfig).  An unknown zone is refused and nothing changes.
UpdateTimezone(loc) ==
  LET r == UpdateConfig(timers, backing, length, running, cronEnabled, now, perIteration)
  IN  /\ Request
      /\ IF loc \notin Zones
           THEN UNCHANGED <<backing, disk, running, timers, location>>
           ELSE /\ location' = loc
                /\ timers' = r.timers
                /\ backing' = r.backing
                /\ running' = r.running
                /\ disk' = IF r.running THEN PostsOf(r.backing, length) ELSE disk
      /\ UNCHANGED <<length, nextID, calls, now, cronEnabled, perIteration, invoked,
                     issued, deletedLive, adds, threads>>

\* CleanupCompletedJobs from index i on.
RECURSIVE CleanupFrom(_, _, _, _)
CleanupFrom(i, T, b, n) ==
  IF i > n
    THEN [timers |-> T, backing |-> b]
    ELSE LET p == b[i]
         IN  IF p.Status \in {statusPosted, statusFailed} /\ p.CronEntryID > 0
               THEN CleanupFrom(i + 1, StopEntry(T, p.ID),
                                SetCronEntry(b, n, p.ID, 0), n)
               ELSE CleanupFrom(i + 1, T, b, n)

\* CleanupCompletedJobs(), called by the console's status screen.
CleanupCompletedJobs ==
  LET r == CleanupFrom(1, timers, backing, length)
  IN  /\ Request
      /\ IF running
           THEN /\ timers' = r.timers
                /\ backing' = r.backing
                /\ disk' = IF r.backing # backing
                             THEN PostsOf(r.backing, length)
                             ELSE disk
           ELSE UNCHANGED <<timers, backing, disk>>
      /\ UNCHANGED <<length, nextID, running, calls, now, location, cronEnabled,
                     perIteration, invoked, issued, deletedLive, adds, threads>>

\* json.Unmarshal in LoadPosts: the slice is grown one element at a time; its
\* final capacity is what append would give, or (a decoder that starts arrays
\* at four elements) at least four.
RECURSIVE Decode(_, _)
Decode(file, k) ==
  IF k = 0 THEN <<>> ELSE AppendPost(Decode(file, k - 1), k - 1, file[k])
LoadPosts(file, roomy) ==
  LET b == Decode(file, Len(file))
  IN  IF roomy /\ Len(b) > 0 /\ Len(b) < 4 THEN b \o Zeros(4 - Len(b)) ELSE b

\* loadPosts: nextID is one more than the highest ID in the file (1 if empty).
LoadNextID(file) ==
  IF Len(file) = 0
    THEN 1
    ELSE 1 + (CHOOSE m \in {file[i].ID : i \in 1..Len(file)} :
                \A i \in 1..Len(file) : file[i].ID <= m)

\* The process ends (timers and calls in flight die with it) and main() runs
\* again: LoadConfig, NewScheduler (loadPosts), cron.NewScheduler, and Start()
\* if cron is enabled and the store holds a post.
Restart(roomy) ==
  LET b == LoadPosts(disk, roomy)
      n == Len(disk)
      auto == cronEnabled /\ n > 0
      r == IF auto
             THEN StartResult(EmptyBag, b, n, now, perIteration)
             ELSE [timers |-> EmptyBag, backing |-> b]
  IN  /\ Request
      /\ backing' = r.backing
      /\ length' = n
      /\ nextID' = LoadNextID(disk)
      /\ disk' = IF r.timers # EmptyBag THEN PostsOf(r.backing, n) ELSE disk
      /\ running' = auto
      /\ timers' = r.timers
      /\ calls' = EmptyBag
      /\ adds' = EmptyBag
      /\ threads' = EmptyBag
      /\ UNCHANGED <<now, location, cronEnabled, perIteration, invoked, issued,
                     deletedLive>>

\* The process is restarted while the posts file exists and cannot be read or
\* decoded: LoadPosts returns an error, loadPosts returns without a word and
\* NewScheduler hands out the store as it made it (no post, nextID 1); main()
\* goes on and, the store being empty, does not call Start().  The file stays
\* as it is.
RestartLoadFails ==
  /\ disk # <<>>
  /\ Request
  /\ backing' = <<>>
  /\ length' = 0
  /\ nextID' = 1
  /\ running' = FALSE
  /\ timers' = EmptyBag
  /\ calls' = EmptyBag
  /\ adds' = EmptyBag
  /\ threads' = EmptyBag
  /\ UNCHANGED <<disk, now, location, cronEnabled, perIteration, invoked, issued,
                 deletedLive>>

\* ---- actions: AddPost step by step ------------------------------------------------

\* The store has no lock and the server runs each request on its own
\* goroutine, so the reads and writes of two AddPost calls interleave.  One
\* call in three steps: it reads s.nextID into post.ID (line 69); append reads
\* the slice (line 76); append's result is stored, s.nextID++ and savePosts
\* run, and createPost goes on to AddNewPost.  MaxAdds calls overlap at most.
MaxAdds == 2

\* POST /posts, a valid request, as far as AddPost's read of s.nextID.
AddBegin(content, wall) ==
  LET sched == ParseTimeInTimezone(wall, location)
      post  == [ID |-> nextID, Content |-> content, ScheduledAt |-> sched,
                Status |-> statusScheduled, CronEntryID |-> 0]
  IN  /\ nextID <= MaxId
      /\ BagCardinality(adds) < MaxAdds
      /\ ValidRequest(content, "ok", sched, now)
      /\ Request
      /\ adds' = adds (+) One([post |-> post, pc |-> "built", arr |-> <<>>, n |-> 0])
      /\ UNCHANGED <<backing, length, nextID, disk, running, timers, calls, now,
                     location, cronEnabled, perIteration, invoked, issued,
                     deletedLive, threads>>

\* append(s.Posts, post) reads s.Posts: its array and its length.
AddReadSlice(a) ==
  /\ a \in DOMAIN adds
  /\ a.pc = "built"
  /\ adds' = (adds (-) One(a)) (+)
               One([a EXCEPT !.pc = "read", !.arr = backing, !.n = length])
  /\ UNCHANGED <<backing, length, nextID, disk, running, timers, calls, now,
                 location, cronEnabled, perIteration, invoked, issued, deletedLive,
                 requests, threads>>

\* The slice append made from what it read is stored in s.Posts; s.nextID++;
\* savePosts; createPost calls AddNewPost on the post with the highest ID.
AddWriteSlice(a) ==
  LET b1 == AppendPost(a.arr, a.n, a.post)
      n1 == a.n + 1
      r  == AddNewPost(timers, b1, n1, NewestIndex(b1, n1), running, now)
  IN  /\ a \in DOMAIN adds
      /\ a.pc = "read"
      /\ adds' = adds (-) One(a)
      /\ backing' = r.backing
      /\ length' = n1
      /\ nextID' = nextID + 1
      /\ disk' = PostsOf(r.backing, n1)
      /\ timers' = r.timers
      /\ issued' = Append(issued, a.post.ID)
      /\ UNCHANGED <<running, calls, now, location, cronEnabled, perIteration,
                     invoked, deletedLive, requests, threads>>

\* ---- the engine's lock: cs.timersMux ------------------------------------------------

\* What a goroutine does, in program order, in each function of the engine
\* that touches cs.timers (the engine running): it takes and releases
\* cs.timersMux ("Lock", "Unlock", "RLock", "RUnlock"), reads or writes the map
\* ("read", "write"), and in between arms a timer ("arm"), has CreatePost on
\* the wire (from "publishBegin" to "publishEnd"), has UpdatePostCronEntry
\* write the posts file ("save"), calls cs.cron.Stop() ("cronStop").
MaxThreads == 2

\* The timer callback with the lock taken before publishPost.
CallbackLockedSteps ==
  <<"Lock", "publishBegin", "publishEnd", "write", "Unlock", "save">>

\* schedulePost, from time.AfterFunc on.
SchedulePostSteps == <<"arm", "Lock", "write", "Unlock", "save">>
\* The callback of the timer.
CallbackSteps ==
  <<"publishBegin", "publishEnd", "Lock", "write", "Unlock", "save">>
\* Stop(): the loop over the map and its replacement.
StopSteps == <<"Lock", "read", "write", "Unlock", "cronStop">>
\* GetNextRun(): RUnlock is deferred to the return.
GetNextRunSteps == <<"RLock", "read", "RUnlock">>
\* GetStatus(): len(cs.timers), then GetNextRun().
GetStatusSteps == <<"RLock", "read", "RUnlock">> \o GetNextRunSteps
\* CleanupCompletedJobs(): Unlock is deferred to the return.
CleanupSteps == <<"Lock", "read", "write", "save", "Unlock">>

EngineOps ==
  {"schedulePost", "callback", "Stop", "GetNextRun", "GetStatus",
   "CleanupCompletedJobs"}
Steps(op) ==
  CASE op = "schedulePost" -> SchedulePostSteps
    [] op = "callback" -> CallbackSteps
    [] op = "Stop" -> StopSteps
    [] op = "GetNextRun" -> GetNextRunSteps
    [] op = "GetStatus" -> GetStatusSteps
    [] op = "CleanupCompletedJobs" -> CleanupSteps

\* How a goroutine holds cs.timersMux after the first k steps of `steps`.
RECURSIVE HeldAfter(_, _)
HeldAfter(steps, k) ==
  IF k = 0 THEN "none"
  ELSE IF steps[k] = "Lock" THEN "W"
  ELSE IF steps[k] = "RLock" THEN "R"
  ELSE IF steps[k] \in {"Unlock", "RUnlock"} THEN "none"
  ELSE HeldAfter(steps, k - 1)

\* A goroutine th = [op, pc] has done pc steps of its function.
Held(th) == HeldAfter(Steps(th.op), th.pc)
NextStep(th) == Steps(th.op)[th.pc + 1]
\* CreatePost is on the wire for this goroutine.
Publishing(th) == th.pc > 0 /\ Steps(th.op)[th.pc] = "publishBegin"

\* sync.RWMutex: Lock waits while anyone holds the lock, RLock while a
\* writer does.
MayStep(th, others) ==
  /\ NextStep(th) = "Lock" => \A o \in DOMAIN others : Held(o) = "none"
  /\ NextStep(th) = "RLock" => \A o \in DOMAIN others : Held(o) # "W"

\* A goroutine enters a function of the engine.
EnterEngine(op) ==
  /\ running
  /\ BagCardinality(threads) < MaxThreads
  /\ threads' = threads (+) One([op |-> op, pc |-> 0])
  /\ UNCHANGED <<backing, length, nextID, disk, running, timers, calls, now,
                 location, cronEnabled, perIteration, invoked, issued, deletedLive,
                 requests, adds>>

\* A goroutine takes its next step; after the last one it has returned.
StepEngine(th) ==
  LET others == threads (-) One(th)
      after  == [th EXCEPT !.pc = @ + 1]
  IN  /\ th \in DOMAIN threads
      /\ MayStep(th, others)
      /\ threads' = IF after.pc = Len(Steps(th.op))
                      THEN others
                      ELSE others (+) One(after)
      /\ UNCHANGED <<backing, length, nextID, disk, running, timers, calls, now,
                     location, cronEnabled, perIteration, invoked, issued,
                     deletedLive, requests, adds>>

\* ---- actions: createPost around AddPost ----------------------------------------------

\* createPost does not learn from AddPost which post it has added: it reads
\* the store again and takes the post with the highest ID (posts.go:137-144).
\* Between the two, other requests are served.  A request that has returned
\* from AddPost and not yet read the store is a record of `adds` at "added".

\* POST /posts, a valid request, as far as the return of AddPost.
CreateAdd(content, wall) ==
  LET sched == ParseTimeInTimezone(wall, location)
      post  == [ID |-> nextID, Content |-> content, ScheduledAt |-> sched,
                Status |-> statusScheduled, CronEntryID |-> 0]
      moved == AppendReallocates(backing, length)
      b1    == AppendPost(backing, length, post)
  IN  /\ nextID <= MaxId
      /\ BagCardinality(adds) < MaxAdds
      /\ ValidRequest(content, "ok", sched, now)
      /\ Request
      /\ backing' = b1
      /\ length' = length + 1
      /\ nextID' = nextID + 1
      /\ disk' = PostsOf(b1, length + 1)
      /\ timers' = IF moved THEN FreezeTimers(timers, backing) ELSE timers
      /\ calls' = IF moved THEN FreezeCalls(calls, backing) ELSE calls
      /\ issued' = Append(issued, nextID)
      /\ adds' = adds (+) One([post |-> post, pc |-> "added", arr |-> <<>>, n |-> 0])
      /\ UNCHANGED <<running, now, location, cronEnabled, perIteration, invoked,
                     deletedLive, threads>>

\* The rest of createPost: the post with the highest ID is looked up, handed
\* to AddNewPost if the engine is running, and returned in the response.
CreateSchedule(a) ==
  LET r == AddNewPost(timers, backing, length, NewestIndex(backing, length),
                      running, now)
  IN  /\ a \in DOMAIN adds
      /\ a.pc = "added"
      /\ length > 0
      /\ adds' = adds (-) One(a)
      /\ backing' = r.backing
      /\ timers' = r.timers
      /\ disk' = IF r.backing # backing THEN PostsOf(r.backing, length) ELSE disk
      /\ UNCHANGED <<length, nextID, running, calls, now, location, cronEnabled,
                     perIteration, invoked, issued, deletedLive, requests, threads>>

\* ---- actions: schedulePost step by step ----------------------------------------------

\* schedulePost arms its timer (time.AfterFunc, line 212) before it takes
\* cs.timersMux and stores the timer in cs.timers (232-237), and calls
\* UpdatePostCronEntry(id, id) after that (240).  The runtime runs the
\* callback on a goroutine of its own as soon as the timer is due, so the
\* callback interleaves with the rest of schedulePost.  A call in flight is a
\* goroutine of `threads` at step "arm" or "Unlock" of SchedulePostSteps, with
\* the key and the instant of its timer.

\* POST /posts, a valid request: createPost as far as time.AfterFunc in
\* schedulePost (on a stopped engine, or for a post in the past, to its end).
CreateArm(content, wall) ==
  LET sched == ParseTimeInTimezone(wall, location)
      post  == [ID |-> nextID, Content |-> content, ScheduledAt |-> sched,
                Status |-> statusScheduled, CronEntryID |-> 0]
      moved == AppendReallocates(backing, length)
      b1    == AppendPost(backing, length, post)
      n1    == length + 1
      T1    == IF moved THEN FreezeTimers(timers, backing) ELSE timers
      i     == NewestIndex(b1, n1)
      arms  == /\ running
               /\ b1[i].Status = statusScheduled
               /\ ~SkipsScheduling(b1[i].ScheduledAt, now)
      timer == [NewTimer(b1[i].ID, b1[i].ScheduledAt, "slot", i)
                  EXCEPT !.inMap = FALSE]
  IN  /\ nextID <= MaxId
      /\ BagCardinality(threads) < MaxThreads
      /\ ValidRequest(content, "ok", sched, now)
      /\ Request
      /\ backing' = b1
      /\ length' = n1
      /\ nextID' = nextID + 1
      /\ disk' = PostsOf(b1, n1)
      /\ calls' = IF moved THEN FreezeCalls(calls, backing) ELSE calls
      /\ issued' = Append(issued, nextID)
      /\ timers' = IF arms THEN T1 (+) One(timer) ELSE T1
      /\ threads' = IF arms
                      THEN threads (+) One([op |-> "schedulePost", pc |-> 1,
                                            key |-> b1[i].ID,
                                            at |-> b1[i].ScheduledAt])
                      ELSE threads
      /\ UNCHANGED <<running, now, location, cronEnabled, perIteration, invoked,
                     deletedLive, adds>>

\* cs.timers[post.ID] = &PostTimer{..., Timer: timer} under the lock: the
\* entry that was there goes, and the timer of this call becomes the entry,
\* armed as it is or already fired.
ScheduleRecord(th) ==
  LET own == {t \in DOMAIN timers : t.key = th.key /\ ~t.inMap /\ t.st = "armed"}
      T0  == DeleteEntry(timers, th.key)
      t   == CHOOSE t \in own : TRUE
      T1  == IF own # {}
               THEN (T0 (-) One(t)) (+) One([t EXCEPT !.inMap = TRUE])
               ELSE T0 (+) One([NewTimer(th.key, th.at, "id", th.key)
                                  EXCEPT !.st = "fired"])
  IN  /\ th \in DOMAIN threads
      /\ th.op = "schedulePost"
      /\ th.pc = 1
      /\ timers' = T1
      /\ threads' = (threads (-) One(th)) (+) One([th EXCEPT !.pc = 4])
      /\ UNCHANGED <<backing, length, nextID, disk, running, calls, now, location,
                     cronEnabled, perIteration, invoked, issued, deletedLive,
                     requests, adds>>

\* UpdatePostCronEntry(post.ID, post.ID), the last step of schedulePost.
ScheduleSave(th) ==
  LET b1 == SetCronEntry(backing, length, th.key, th.key)
  IN  /\ th \in DOMAIN threads
      /\ th.op = "schedulePost"
      /\ th.pc = 4
      /\ backing' = b1
      /\ disk' = IF IndexOf(th.key) # 0 THEN PostsOf(b1, length) ELSE disk
      /\ threads' = threads (-) One(th)
      /\ UNCHANGED <<length, nextID, running, timers, calls, now, location,
                     cronEnabled, perIteration, invoked, issued, deletedLive,
                     requests, adds>>

\* time.LoadLocation(name) succeeds.
Resolves(loc) == loc \in Zones

\* The zone schedulePost, UpdateConfig and cron.NewScheduler go on with:
\* cfg.GetTimezone(), and time.UTC (after a log line) when that fails.
EngineZone(loc) == IF Resolves(loc) THEN loc ELSE "UTC"

\* What validateAndParsePostRequest makes of a scheduled_at of this kind:
\* ParseTimeInTimezone fails when the configured zone does not resolve, and
\* the request is refused as one with a malformed time.
KindUnder(kind, loc) == IF Resolves(loc) THEN kind ELSE "bad"

\* The process is restarted with a config file whose timezone.location was
\* written by hand: LoadConfig checks the LinkedIn credentials only, so any
\* name gets in; cron.NewScheduler and schedulePost log and go on with UTC.
RestartConfigEdited(loc, roomy) ==
  LET b == LoadPosts(disk, roomy)
      n == Len(disk)
      auto == cronEnabled /\ n > 0
      r == IF auto
             THEN StartResult(EmptyBag, b, n, now, perIteration)
             ELSE [timers |-> EmptyBag, backing |-> b]
  IN  /\ Request
      /\ location' = loc
      /\ backing' = r.backing
      /\ length' = n
      /\ nextID' = LoadNextID(disk)
      /\ disk' = IF r.timers # EmptyBag THEN PostsOf(r.backing, n) ELSE disk
      /\ running' = auto
      /\ timers' = r.timers
      /\ calls' = EmptyBag
      /\ adds' = EmptyBag
      /\ threads' = EmptyBag
      /\ UNCHANGED <<now, cronEnabled, perIteration, invoked, issued, deletedLive>>

\* time.Time{}: the zero instant, before every instant of the clock.
ZeroTime == 0 - 1

\* The loop of GetNextRun from index i on, nextRun being the value so far.
RECURSIVE NextRunFrom(_, _, _, _, _)
NextRunFrom(i, T, b, n, nextRun) ==
  IF i > n
    THEN nextRun
    ELSE LET p == b[i]
             takes == /\ p.Status = statusScheduled
                      /\ p.CronEntryID > 0
                      /\ HasEntry(T, p.ID)
                      /\ (nextRun = ZeroTime \/ p.ScheduledAt < nextRun)
         IN  NextRunFrom(i + 1, T, b, n, IF takes THEN p.ScheduledAt ELSE nextRun)

\* GetNextRun(): the zero instant on a stopped engine.
GetNextRun(T, b, n, isRunning) ==
  IF ~isRunning THEN ZeroTime ELSE NextRunFrom(1, T, b, n, ZeroTime)

\* The clock advances; a timer that is due has its callback started first.
Tick ==
  /\ now < MaxTime
  /\ \A t \in DOMAIN timers : t.st = "armed" => t.at > now
  /\ now' = now + 1
  /\ UNCHANGED <<backing, length, nextID, disk, running, timers, calls, location,
                 cronEnabled, perIteration, invoked, issued, deletedLive, requests,
                 adds, threads>>

\* ---- specifications ---------------------------------------------------------------

\* The web server: its handlers, the timers and the clock.

Next ==
  \/ \E c \in Contents \cup {""}, k \in Kinds :
       \E w \in WallsOf(k) : CreatePost(c, k, w)
  \/ \E id \in Ids, c \in Contents \cup {""}, k \in Kinds :
       \E w \in WallsOf(k) : UpdatePost(id, c, k, w)
  \/ \E id \in Ids : DeletePost(id)
  \/ \E ids \in SUBSET Ids : DeleteMultiplePosts(ids)
  \/ \E id \in Ids, tok \in BOOLEAN : PublishPost(id, tok)
  \/ \E tok \in BOOLEAN : PublishDuePosts(tok)
  \/ \E t \in DOMAIN timers, tok \in BOOLEAN : TimerFire(t, tok)
  \/ \E c \in DOMAIN calls, ok \in BOOLEAN, tok \in BOOLEAN : PublishEnd(c, ok, tok)
  \/ Start
  \/ Stop
  \/ \E loc \in Zones \cup {InvalidZone} : UpdateTimezone(loc)
  \/ \E roomy \in BOOLEAN : Restart(roomy)
  \/ Tick

Spec == Init /\ [][Next]_vars

\* The same server built with a range variable per iteration (Go 1.22 on).
InitPerIteration == Init /\ perIteration = TRUE
SpecPerIteration == InitPerIteration /\ [][Next]_vars

\* The state after Start() and one accepted POST /posts at instant 0: one
\* scheduled post with its timer armed through AddNewPost.
InitArmed ==
  \E c \in Contents, at \in Times \ {0} :
    LET post == [ID |-> 1, Content |-> c, ScheduledAt |-> at,
                 Status |-> statusScheduled, CronEntryID |-> 0]
        b    == AppendPost(<<>>, 0, post)
        r    == AddNewPost(EmptyBag, b, 1, 1, TRUE, 0)
    IN  /\ backing = r.backing
        /\ length = 1
        /\ nextID = 2
        /\ disk = PostsOf(r.backing, 1)
        /\ running = TRUE
        /\ timers = r.timers
        /\ calls = EmptyBag
        /\ now = 0
        /\ location = "UTC"
        /\ cronEnabled \in BOOLEAN
        /\ perIteration \in BOOLEAN
        /\ invoked = [i \in Ids |-> 0]
        /\ issued = <<1>>
        /\ deletedLive = {}
        /\ requests = 0
        /\ adds = EmptyBag
        /\ threads = EmptyBag

\* Posts come and go and the process is restarted; nothing else is asked of
\* the server, a token is always at hand and the publisher is deterministic.
NextLifecycle ==
  \/ \E c \in Contents, w \in WallsOf("ok") : CreatePost(c, "ok", w)
  \/ \E id \in Ids : DeletePost(id)
  \/ \E id \in Ids : PublishPost(id, TRUE)
  \/ \E t \in DOMAIN timers : TimerFire(t, TRUE)
  \/ \E c \in DOMAIN calls : PublishEnd(c, Outcome(c), TRUE)
  \/ \E roomy \in BOOLEAN : Restart(roomy)
  \/ Tick

SpecLifecycle == InitArmed /\ [][NextLifecycle]_vars

\* The console: it schedules posts, marks due posts as posted and shows the
\* engine's status, while the timers run.
NextConsole ==
  \/ \E c \in Contents \cup {""}, k \in Kinds :
       \E w \in WallsOf(k) : ConsoleSchedulePost(c, k, w)
  \/ \E id \in Ids : MarkAsPosted(id)
  \/ CleanupCompletedJobs
  \/ \E t \in DOMAIN timers, tok \in BOOLEAN : TimerFire(t, tok)
  \/ \E c \in DOMAIN calls, ok \in BOOLEAN : PublishEnd(c, ok, TRUE)
  \/ Tick

SpecConsole == Init /\ [][NextConsole]_vars

\* The engine alone: the store is left as it is, a token is always at hand
\* and the publisher is deterministic.
NextReconcile ==
  \/ Start
  \/ Stop
  \/ \E t \in DOMAIN timers : TimerFire(t, TRUE)
  \/ \E c \in DOMAIN calls : PublishEnd(c, Outcome(c), TRUE)
  \/ Tick

SpecReconcile == InitArmed /\ [][NextReconcile]_vars

\* Posts are created, the process is restarted and the engine started and
\* stopped, while the timers run; a token is always at hand and the publisher
\* is deterministic.
NextReload ==
  \/ \E c \in Contents, w \in WallsOf("ok") : CreatePost(c, "ok", w)
  \/ \E roomy \in BOOLEAN : Restart(roomy)
  \/ Start
  \/ Stop
  \/ \E t \in DOMAIN timers : TimerFire(t, TRUE)
  \/ \E c \in DOMAIN calls : PublishEnd(c, Outcome(c), TRUE)
  \/ Tick

SpecReload == Init /\ [][NextReload]_vars

\* The engine left to run: posts are created and the engine is started, and
\* nothing is deleted, edited or stopped; a token is always at hand and the
\* publisher is deterministic.  The runtime runs a timer that is due, a
\* CreatePost on the wire returns, and the clock goes on.
NextFire ==
  \/ \E c \in Contents, w \in WallsOf("ok") : CreatePost(c, "ok", w)
  \/ Start
  \/ \E t \in DOMAIN timers : TimerFire(t, TRUE)
  \/ \E c \in DOMAIN calls : PublishEnd(c, Outcome(c), TRUE)
  \/ Tick

FairFire ==
  /\ WF_vars(\E t \in DOMAIN timers : TimerFire(t, TRUE))
  /\ WF_vars(\E c \in DOMAIN calls : PublishEnd(c, Outcome(c), TRUE))
  /\ WF_vars(Tick)

SpecFire == Init /\ [][NextFire]_vars /\ FairFire

\* Posts are created and published and the process is restarted, with a
\* posts file that can or cannot be read at startup; nothing is deleted or
\* edited.
NextLoad ==
  \/ \E c \in Contents, w \in WallsOf("ok") : CreatePost(c, "ok", w)
  \/ \E roomy \in BOOLEAN : Restart(roomy)
  \/ RestartLoadFails
  \/ Start
  \/ \E t \in DOMAIN timers : TimerFire(t, TRUE)
  \/ \E c \in DOMAIN calls : PublishEnd(c, Outcome(c), TRUE)
  \/ Tick

SpecLoad == Init /\ [][NextLoad]_vars

\* The configured zone: it is changed by request and by hand in the config
\* file between two runs, while posts are created and the timers run.
NextZone ==
  \/ \E c \in Contents, k \in {KindUnder("ok", location)} :
       \E w \in WallsOf(k) : CreatePost(c, k, w)
  \/ \E loc \in Zones \cup {InvalidZone} : UpdateTimezone(loc)
  \/ \E loc \in Zones \cup {InvalidZone}, roomy \in BOOLEAN :
       RestartConfigEdited(loc, roomy)
  \/ Start
  \/ \E t \in DOMAIN timers : TimerFire(t, TRUE)
  \/ \E c \in DOMAIN calls : PublishEnd(c, Outcome(c), TRUE)
  \/ Tick

SpecZone == Init /\ [][NextZone]_vars

\* The store under requests that overlap: posts are created while the engine
\* is stopped, nothing is edited or deleted, and the clock goes on.
NextRace ==
  \/ \E c \in Contents, w \in WallsOf("ok") : AddBegin(c, w)
  \/ \E a \in DOMAIN adds : AddReadSlice(a)
  \/ \E a \in DOMAIN adds : AddWriteSlice(a)
  \/ Tick

SpecRace == Init /\ [][NextRace]_vars

\* The running engine seen from its lock: goroutines enter its functions and
\* go through them step by step.  What the steps do to the map and the posts
\* is left to the actions above; here only their order counts.
NextLock ==
  \/ \E op \in EngineOps : EnterEngine(op)
  \/ \E th \in DOMAIN threads : StepEngine(th)

SpecLock == InitArmed /\ [][NextLock]_vars

\* The engine under its host: posts are created and published by hand, the
\* engine is started and stopped, CleanupCompletedJobs() is called at any
\* time, and the timers run; a token is always at hand and the publisher is
\* deterministic.
NextEngine ==
  \/ \E c \in Contents, w \in WallsOf("ok") : CreatePost(c, "ok", w)
  \/ \E id \in Ids : PublishPost(id, TRUE)
  \/ Start
  \/ Stop
  \/ CleanupCompletedJobs
  \/ \E t \in DOMAIN timers : TimerFire(t, TRUE)
  \/ \E c \in DOMAIN calls : PublishEnd(c, Outcome(c), TRUE)
  \/ Tick

SpecEngine == InitArmed /\ [][NextEngine]_vars

\* The engine with schedulePost taken step by step: posts are created on the
\* running engine while the timers run and the clock goes on; nothing is
\* edited, deleted, stopped or restarted.
NextArm ==
  \/ \E c \in Contents, w \in WallsOf("ok") : CreateArm(c, w)
  \/ \E th \in DOMAIN threads : ScheduleRecord(th)
  \/ \E th \in DOMAIN threads : ScheduleSave(th)
  \/ \E t \in DOMAIN timers, tok \in BOOLEAN : TimerFire(t, tok)
  \/ \E c \in DOMAIN calls, ok \in BOOLEAN : PublishEnd(c, ok, TRUE)
  \/ Tick

SpecArm == InitArmed /\ [][NextArm]_vars

\* Create requests that overlap on the web server: each is served in two
\* steps, the engine is started, the timers run and the clock goes on;
\* nothing is edited, deleted or stopped.
NextOverlap ==
  \/ \E c \in Contents, w \in WallsOf("ok") : CreateAdd(c, w)
  \/ \E a \in DOMAIN adds : CreateSchedule(a)
  \/ Start
  \/ \E t \in DOMAIN timers, tok \in BOOLEAN : TimerFire(t, tok)
  \/ \E c \in DOMAIN calls, ok \in BOOLEAN : PublishEnd(c, ok, TRUE)
  \/ Tick

SpecOverlap == Init /\ [][NextOverlap]_vars

\* ---- properties ---------------------------------------------------------------

\* Armed timers whose key is id, orphans included.
ArmedFor(T, id) ==
  BagCardinality(Restrict(T, {t \in DOMAIN T : t.key = id /\ t.st = "armed"}))
\* cs.timers[id] is an armed timer.
LiveEntry(T, id) == \E t \in DOMAIN T : t.inMap /\ t.key = id /\ t.st = "armed"
\* The calls of timer callbacks that are in flight for post id.
TimerCalls(C, id) ==
  BagCardinality(Restrict(C, {c \in DOMAIN C : c.origin = "timer" /\ c.id = id}))

\* C1: a post that is posted or failed has had CreatePost invoked for its id
\* at most once.
AtMostOnce ==
  \A i \in 1..length :
    backing[i].Status \in {statusPosted, statusFailed}
      => invoked[backing[i].ID] <= 1

\* C2: when a timer callback begins a publish of a post, the clock has
\* reached the ScheduledAt the post holds at that moment.
NoEarlyFire ==
  [][\A i \in 1..length :
       TimerCalls(calls', backing[i].ID) > TimerCalls(calls, backing[i].ID)
         => now >= backing[i].ScheduledAt]_vars

\* C3: once a scheduled post with an armed entry has been deleted, CreatePost
\* is never invoked for its id again.
DeletionCancels ==
  [][\A id \in deletedLive : invoked'[id] = invoked[id]]_vars

\* C4: when a delete removes a scheduled post that has an armed entry while
\* the engine runs, cs.timers holds no entry for its id afterwards and
\* len(cs.timers) has dropped.
DeleteRemovesEntry ==
  [][\A id \in Ids :
       (/\ running
        /\ id \in LiveEntries(timers, backing, length, {id})
        /\ IndexIn(backing', length', id) = 0
        /\ running')
         => /\ ~HasEntry(timers', id)
            /\ TimerCount(timers') < TimerCount(timers)]_vars

\* C5: when the ScheduledAt of a post with an armed entry is changed while the
\* engine runs, exactly one timer is armed for its id afterwards, it is the one
\* in cs.timers, and it is due at the new ScheduledAt.
UpdateReschedules ==
  [][\A i \in 1..length :
       (/\ running
        /\ LiveEntry(timers, backing[i].ID)
        /\ length' = length
        /\ backing'[i].ID = backing[i].ID
        /\ backing'[i].Status = statusScheduled
        /\ backing'[i].ScheduledAt # backing[i].ScheduledAt)
         => /\ ArmedFor(timers', backing[i].ID) = 1
            /\ \A t \in DOMAIN timers' :
                 (t.key = backing[i].ID /\ t.st = "armed")
                   => t.inMap /\ t.at = backing'[i].ScheduledAt]_vars

\* C6: with the store left alone and a deterministic publisher, once the
\* clock has passed every ScheduledAt and the engine is running with nothing
\* pending, every post has the status an uninterrupted engine gives it.
SameOutcomeAsUninterrupted ==
  (/\ now = MaxTime
   /\ running
   /\ calls = EmptyBag
   /\ \A t \in DOMAIN timers : t.st # "armed")
    => \A i \in 1..length :
         backing[i].Status =
           IF CreatePostOK(backing[i].Content) THEN statusPosted ELSE statusFailed

\* C7: a timezone change made while the engine runs leaves it running, with
\* exactly one armed timer, due no earlier than ScheduledAt, for every
\* scheduled future post that had an armed entry.
TimezoneSwapRestores ==
  [][(running /\ location' # location)
       => /\ running'
          /\ \A i \in 1..length :
               (/\ backing[i].Status = statusScheduled
                /\ backing[i].ScheduledAt > now
                /\ LiveEntry(timers, backing[i].ID))
                 => /\ LiveEntry(timers', backing[i].ID)
                    /\ ArmedFor(timers', backing[i].ID) = 1
                    /\ \A t \in DOMAIN timers' :
                         (t.key = backing[i].ID /\ t.st = "armed")
                           => t.at >= backing[i].ScheduledAt]_vars

\* C8: while the engine runs, every scheduled post whose ScheduledAt is still
\* ahead has exactly one armed timer, and cs.timers holds it.
OneEntryPerScheduledPost ==
  running =>
    \A i \in 1..length :
      (backing[i].Status = statusScheduled /\ backing[i].ScheduledAt > now)
        => LiveEntry(timers, backing[i].ID) /\ ArmedFor(timers, backing[i].ID) = 1

\* C9: a post that is posted or failed has no armed entry in cs.timers.
NoEntryUnlessScheduled ==
  \A i \in 1..length :
    backing[i].Status # statusScheduled => ~LiveEntry(timers, backing[i].ID)

\* C10: the ids AddPost hands out are strictly increasing, so none is handed
\* out twice.
IdsStrictlyIncreasing ==
  \A i, j \in 1..Len(issued) : i < j => issued[i] < issued[j]

\* What Start() leaves behind on an engine whose map was empty: every
\* scheduled post whose ScheduledAt is ahead has an armed timer in cs.timers
\* due at its ScheduledAt; every scheduled post whose ScheduledAt is past has
\* no entry and is one of GetDuePosts.
Reconciled ==
  \A i \in 1..length :
    backing[i].Status = statusScheduled =>
      /\ backing[i].ScheduledAt > now =>
           \E t \in DOMAIN timers :
             /\ t.inMap /\ t.key = backing[i].ID /\ t.st = "armed"
             /\ t.at = backing[i].ScheduledAt
      /\ backing[i].ScheduledAt < now =>
           /\ ~HasEntry(timers, backing[i].ID)
           /\ \E k \in 1..Len(GetDuePosts) : GetDuePosts[k] = backing[i]

\* C11: after the process is restarted and Start() has run (called by main()
\* or by a start request on the stopped engine), every scheduled post ahead
\* of the clock has a fresh armed entry and every scheduled post behind it
\* has none and is returned by GetDuePosts.
RestartReconciles ==
  [][(\/ (\E roomy \in BOOLEAN : Restart(roomy)) /\ running'
      \/ ~running /\ Start)
       => Reconciled']_vars

\* C11 witness: the engine runs with a scheduled post behind the clock that
\* has no entry and a scheduled post ahead of it whose entry is armed.
RestartReconcilesWitness ==
  /\ running
  /\ \E i \in 1..length :
       /\ backing[i].Status = statusScheduled
       /\ backing[i].ScheduledAt < now
       /\ ~HasEntry(timers, backing[i].ID)
  /\ \E i \in 1..length :
       /\ backing[i].Status = statusScheduled
       /\ backing[i].ScheduledAt > now
       /\ LiveEntry(timers, backing[i].ID)

\* Post id is in the store with this status.
HasStatus(id, status) ==
  IndexOf(id) # 0 /\ backing[IndexOf(id)].Status = status

\* C12: a scheduled post whose ScheduledAt is ahead and whose entry is armed
\* on the running engine leads, with nothing deleted, edited or stopped, to
\* CreatePost having been invoked exactly once for it and, if CreatePost
\* accepts its content, to the post being posted.
ArmedEntryPublishes ==
  \A id \in Ids :
    (/\ running
     /\ LiveEntry(timers, id)
     /\ HasStatus(id, statusScheduled)
     /\ backing[IndexOf(id)].ScheduledAt > now)
      ~> (/\ invoked[id] = 1
          /\ CreatePostOK(backing[IndexOf(id)].Content)
               => HasStatus(id, statusPosted))

\* C13: a create request whose content is empty, or whose scheduled_at is
\* absent, malformed or not strictly after the clock (equal to it included),
\* adds no post, hands out no id and writes nothing.
AddRejectsInvalid ==
  [][\A c \in Contents \cup {""}, k \in Kinds :
       \A w \in WallsOf(k) :
         (/\ CreatePost(c, k, w)
          /\ \/ c = ""
             \/ k # "ok"
             \/ ParseTimeInTimezone(w, location) <= now)
           => UNCHANGED <<backing, length, nextID, disk, issued>>]_vars

\* C14: whenever a handler writes the posts file it writes the whole of
\* s.Posts, and s.Posts held nothing before the call that the file did not
\* hold: no change of an earlier, refused call reaches the file.  (A restart
\* reloads s.Posts from the file before it writes.)
PersistsAcknowledgedOnly ==
  [][(disk' # disk /\ ~(\E roomy \in BOOLEAN : Restart(roomy)))
       => (Posts = disk /\ disk' = PostsOf(backing', length'))]_vars

\* C15: DELETE /posts with ids removes exactly the posts whose id is among
\* them, leaves the others as they were and in their order, writes the result
\* to the file, and answers with success and the number of posts deleted,
\* also when some of the ids were absent.
DeleteManyReportsAbsent ==
  [][\A ids \in SUBSET Ids :
       DeleteMultiplePosts(ids) =>
         LET reply == DeleteMultipleReply(backing, length, ids)
         IN  /\ PostsOf(backing', length') =
                  SelectSeq(Posts, LAMBDA p : p.ID \notin ids)
             /\ disk' = PostsOf(backing', length')
             /\ reply.success
             /\ reply.count = Cardinality(ids \ NotFound(backing, length, ids))]_vars

\* The indices of the stored posts that are scheduled with ScheduledAt <= now.
DueIndices ==
  {i \in 1..length :
     backing[i].Status = statusScheduled /\ backing[i].ScheduledAt <= now}

\* C16: GetDuePosts returns the scheduled posts whose ScheduledAt is at or
\* before the clock, each once, and no other post: none that is posted or
\* failed, none whose ScheduledAt is ahead.
DueItemsExact ==
  /\ \A k \in 1..Len(GetDuePosts) :
       /\ GetDuePosts[k].Status = statusScheduled
       /\ GetDuePosts[k].ScheduledAt <= now
       /\ \E i \in DueIndices : backing[i] = GetDuePosts[k]
  /\ \A i \in DueIndices : \E k \in 1..Len(GetDuePosts) : GetDuePosts[k] = backing[i]
  /\ Len(GetDuePosts) = Cardinality(DueIndices)

\* C16 witness: GetDuePosts returns a post whose ScheduledAt equals the
\* clock and leaves out a stored post that is no longer scheduled.
DueItemsExactWitness ==
  /\ \E k \in 1..Len(GetDuePosts) : GetDuePosts[k].ScheduledAt = now
  /\ \E i \in 1..length :
       /\ backing[i].Status \in {statusPosted, statusFailed}
       /\ \A k \in 1..Len(GetDuePosts) : GetDuePosts[k].ID # backing[i].ID

\* C17: Start() on the running engine returns its error and arms no timer;
\* cs.timers, cs.running, the posts and the file are as they were.
StartWhileRunningRefused ==
  [][(running /\ Start)
       => /\ StartFails(running)
          /\ UNCHANGED <<timers, running, backing, length, disk, calls>>]_vars

\* C17 witness: the one request served since the engine was started with its
\* timer armed was a Start(), and the engine runs with that timer armed.
StartWhileRunningRefusedWitness ==
  /\ requests = 1
  /\ running
  /\ calls = EmptyBag
  /\ \E t \in DOMAIN timers : t.inMap /\ t.st = "armed"

\* C18: when Stop() returns on the running engine, the engine is stopped,
\* cs.timers is empty and no timer is left armed (a timer left armed fires
\* and starts a publish attempt after the Stop); Stop() on the stopped engine
\* changes nothing.
StopCancelsEveryTimer ==
  [][Stop =>
       IF running
         THEN /\ ~running'
              /\ TimerCount(timers') = 0
              /\ \A t \in DOMAIN timers' : t.st # "armed"
         ELSE UNCHANGED <<timers, running, backing, length, disk, calls>>]_vars

\* C19: when Stop() returns on the running engine (its wait is for the
\* context of cs.cron.Stop(), done at once, so shutdownTimeout never
\* elapses), no publish started by a timer callback is still in flight.
StopWaitsForCallbacks ==
  [][(running /\ Stop) => \A c \in DOMAIN calls' : c.origin # "timer"]_vars

\* The file f holds post p (its id, content and ScheduledAt).
Holds(f, p) ==
  \E j \in 1..Len(f) :
    /\ f[j].ID = p.ID
    /\ f[j].Content = p.Content
    /\ f[j].ScheduledAt = p.ScheduledAt

\* C20: a restart that fails to load the posts file does not bring the store
\* up empty with nextID = 1, so that, with nothing deleted or edited, every
\* post the file holds is still in the file after every later write.
LoadFailureIsFatal ==
  [][\A k \in 1..Len(disk) : Holds(disk', disk[k])]_vars

\* The armed timers of T with this key that are due at this instant.
ArmedAt(T, key, at) ==
  BagCardinality(Restrict(T, {t \in DOMAIN T :
                                t.key = key /\ t.at = at /\ t.st = "armed"}))

\* A timer with this key, due at this instant, is armed in this step: there
\* is one more of them than before, or the process has been restarted and
\* every timer is a new one.
ArmedInStep(key, at) ==
  \/ ArmedAt(timers', key, at) > ArmedAt(timers, key, at)
  \/ /\ ArmedAt(timers', key, at) > 0
     /\ \/ \E roomy \in BOOLEAN : Restart(roomy)
        \/ \E loc \in Zones \cup {InvalidZone}, roomy \in BOOLEAN :
             RestartConfigEdited(loc, roomy)

ArmsTimer == \E key \in Ids, at \in Times : ArmedInStep(key, at)

\* C21: a timezone request with a name that does not resolve leaves the
\* configured location (and the offset written with it) as it was, and
\* whenever the engine arms a timer the zone it works in is the configured
\* one, not a default put in its place.
InvalidZoneNeverDefaulted ==
  [][/\ \A loc \in Zones \cup {InvalidZone} :
          (UpdateTimezone(loc) /\ ~Resolves(loc)) => UNCHANGED location
     /\ ArmsTimer => EngineZone(location') = location']_vars

\* C22: calls on the store that overlap are serialized.  With posts being
\* added and nothing else, every snapshot written to the file is the one
\* before it with one more post, whose id is higher than every id in it: no
\* acknowledged post is lost and no two posts share an id.
StoreCallsSerialized ==
  [][disk' # disk =>
       /\ Len(disk') = Len(disk) + 1
       /\ SubSeq(disk', 1, Len(disk)) = disk
       /\ \A k \in 1..Len(disk) : disk[k].ID < disk'[Len(disk')].ID]_vars

\* C23: a goroutine that is about to read cs.timers holds cs.timersMux, one
\* that is about to write it holds it for writing, and a goroutine whose
\* CreatePost is on the wire does not hold it.
MapAccessUnderLock ==
  \A th \in DOMAIN threads :
    /\ NextStep(th) = "read" => Held(th) # "none"
    /\ NextStep(th) = "write" => Held(th) = "W"
    /\ Publishing(th) => Held(th) = "none"

\* C23 witness: one callback has CreatePost on the wire while another
\* goroutine, holding the lock, is about to write the map.
MapAccessUnderLockWitness ==
  \E th, o \in DOMAIN threads :
    /\ Publishing(th)
    /\ NextStep(o) = "write"
    /\ Held(o) = "W"

\* C24: schedulePost arms a timer only for a post whose ScheduledAt is
\* strictly after the clock: no timer armed in a step is due at or before
\* the instant it is armed at (none with a delay of zero).
NoZeroDelayTimer ==
  [][\A key \in Ids, at \in Times : ArmedInStep(key, at) => at > now']_vars

\* C25: the callback of a timer takes its entry out of cs.timers before it
\* calls the publisher: while a publish started by a callback is in flight
\* for a post, cs.timers holds no entry for that post.
EntryRemovedBeforePublish ==
  \A c \in DOMAIN calls : c.origin = "timer" => ~HasEntry(timers, c.id)

\* The status post id has in the store after the step.
StatusAfter(id) == backing'[IndexIn(backing', length', id)].Status

\* C26: a callback that fires for a post that is in the store and scheduled
\* ends with the post posted if CreatePost succeeded and failed if the
\* attempt ended in an error of any kind, a token that is missing or expired
\* included: the post is not left scheduled.
CallbackEndsTerminal ==
  [][/\ \A t \in DOMAIN timers, tok \in BOOLEAN :
          (/\ TimerFire(t, tok)
           /\ calls' = calls
           /\ CanInvoke(backing, length, ReadID(backing, t.pk, t.pv)))
            => StatusAfter(ReadID(backing, t.pk, t.pv))
                 \in {statusPosted, statusFailed}
     /\ \A c \in DOMAIN calls, ok \in BOOLEAN, tok \in BOOLEAN :
          (/\ PublishEnd(c, ok, tok)
           /\ c.origin = "timer"
           /\ IndexIn(backing', length', c.id) # 0)
            => StatusAfter(c.id) = IF ok THEN statusPosted ELSE statusFailed]_vars

\* C27: the status of a post changes at most once, from scheduled to posted
\* or failed: a post that is posted or failed keeps its status through
\* every step, whatever the operation.
TerminalStatusKept ==
  [][\A id \in Ids :
       (/\ IndexOf(id) # 0
        /\ backing[IndexOf(id)].Status \in {statusPosted, statusFailed}
        /\ IndexIn(backing', length', id) # 0)
         => StatusAfter(id) = backing[IndexOf(id)].Status]_vars

\* C28: the CronEntryID of a stored post is not zero exactly when cs.timers
\* holds an entry for the post: it is back at 0 once the entry is gone,
\* whether the callback, Stop() or UpdateConfig took it away, and no value
\* of an earlier run or an earlier process is left in it.
HandleMatchesEntry ==
  \A i \in 1..length :
    backing[i].CronEntryID # 0 <=> HasEntry(timers, backing[i].ID)

\* The entries of T (timers held by the map) under this key.
EntriesOf(T, key) == Restrict(T, {t \in DOMAIN T : t.inMap /\ t.key = key})

\* C29: when CleanupCompletedJobs() returns, on the running engine and on
\* the stopped one, no post that is posted or failed has a CronEntryID other
\* than 0 or an entry in cs.timers, and every scheduled post and its entry
\* are as they were.
CleanupClearsTerminal ==
  [][CleanupCompletedJobs =>
       /\ length' = length
       /\ \A i \in 1..length :
            IF backing[i].Status \in {statusPosted, statusFailed}
              THEN /\ backing'[i].CronEntryID = 0
                   /\ ~HasEntry(timers', backing[i].ID)
              ELSE /\ backing'[i] = backing[i]
                   /\ EntriesOf(timers', backing[i].ID) =
                        EntriesOf(timers, backing[i].ID)]_vars

\* C30: AddNewPost on the stopped engine, or for a post that is not
\* scheduled, changes nothing: no timer is armed, cs.timers gets no entry and
\* no CronEntryID is written.  So a post created while the engine is stopped
\* comes into the store with CronEntryID 0 and the timers are as they were.
AddOnStoppedChangesNothing ==
  [][/\ \A i \in 1..length :
          (~running \/ backing[i].Status # statusScheduled)
            => AddNewPost(timers, backing, length, i, running, now)
                 = [timers |-> timers, backing |-> backing]
     /\ \A c \in Contents, w \in WallsOf("ok") :
          (CreatePost(c, "ok", w) /\ ~running /\ length' = length + 1)
            => /\ timers' = timers
               /\ backing'[length'].CronEntryID = 0
               /\ PostsOf(backing', length) = Posts]_vars

\* C30 witness: the engine is stopped; the store holds a post that is
\* posted, and after it a scheduled post ahead of the clock, created on the
\* stopped engine, with CronEntryID 0 and no entry.
AddOnStoppedChangesNothingWitness ==
  /\ ~running
  /\ \E i, j \in 1..length :
       /\ i < j
       /\ backing[i].Status = statusPosted
       /\ backing[j].Status = statusScheduled
       /\ backing[j].ScheduledAt > now
       /\ backing[j].CronEntryID = 0
       /\ ~HasEntry(timers, backing[j].ID)

\* The posts of the store that have an entry in cs.timers.
WithEntry == {i \in 1..length : HasEntry(timers, backing[i].ID)}

\* C31: GetNextRun() returns the earliest ScheduledAt among the posts that
\* have an entry in cs.timers, those posts and no others, and the zero
\* instant when the engine is stopped or no post has an entry.
NextRunIsEarliestEntry ==
  GetNextRun(timers, backing, length, running) =
    IF ~running \/ WithEntry = {}
      THEN ZeroTime
      ELSE CHOOSE m \in {backing[i].ScheduledAt : i \in WithEntry} :
             \A i \in WithEntry : m <= backing[i].ScheduledAt

\* C32: the callback of the timer armed for a post attempts to publish that
\* post and touches no other: the id it reads when it fires is the key it
\* was armed under, and from there to its end no post with another id and no
\* entry under another key is changed, whatever was added to or deleted from
\* the store in between and however many posts one Start() has scheduled.
CallbackTouchesOwnPost ==
  [][/\ \A t \in DOMAIN timers, tok \in BOOLEAN :
          TimerFire(t, tok) =>
            /\ ReadID(backing, t.pk, t.pv) = t.key
            /\ \A i \in 1..length :
                 backing[i].ID # t.key => backing'[i] = backing[i]
            /\ \A key \in Ids \ {t.key} :
                 EntriesOf(timers', key) = EntriesOf(timers, key)
     /\ \A c \in DOMAIN calls, ok \in BOOLEAN, tok \in BOOLEAN :
          (PublishEnd(c, ok, tok) /\ c.origin = "timer") =>
            /\ \A i \in 1..length :
                 backing[i].ID # c.id => backing'[i] = backing[i]
            /\ \A key \in Ids \ {c.id} :
                 EntriesOf(timers', key) = EntriesOf(timers, key)]_vars

\* C33: the outcome of a publish attempt for a post is recorded on that post
\* and on no other, and is not lost, whatever is added to or deleted from
\* the store while CreatePost is on the wire: when the call returns, the post
\* it was made for, if still in the store, is posted or failed as the
\* publisher answered, and every other post has the status it had.
OutcomeOnOwnPost ==
  [][\A c \in DOMAIN calls, ok \in BOOLEAN, tok \in BOOLEAN :
       PublishEnd(c, ok, tok) =>
         /\ length' = length
         /\ IndexOf(c.id) # 0 =>
              StatusAfter(c.id) = IF ok THEN statusPosted ELSE statusFailed
         /\ \A i \in 1..length :
              backing[i].ID # c.id => backing'[i].Status = backing[i].Status]_vars

\* No timer is armed for this post, no callback of one of its timers is
\* running and no schedulePost is in flight for it.
Settled(id) ==
  /\ ArmedFor(timers, id) = 0
  /\ TimerCalls(calls, id) = 0
  /\ \A th \in DOMAIN threads : th.key # id

\* C34: schedulePost arms the timer before it records the entry, and however
\* the callback interleaves with that, once the callback of a post's timer
\* has finished (and schedulePost has returned) cs.timers holds no entry for
\* the post and its CronEntryID is 0.
FiredLeavesNoEntry ==
  \A i \in 1..length :
    Settled(backing[i].ID) =>
      /\ ~HasEntry(timers, backing[i].ID)
      /\ backing[i].CronEntryID = 0

\* C35: adding an entry is idempotent per id: AddNewPost for a post that has
\* an armed entry already leaves one armed timer for the post, the one
\* cs.timers holds, where Stop() finds and cancels it.  So after the console
\* has scheduled a post (Start() on the stopped engine schedules every
\* pending post, and the newest is then added again) every armed timer of
\* the new post is in cs.timers and there is one of them.
AddEntryIdempotent ==
  [][/\ \A i \in 1..length :
          (running /\ LiveEntry(timers, backing[i].ID)
                   /\ ArmedFor(timers, backing[i].ID) = 1)
            => ArmedFor(AddNewPost(timers, backing, length, i, running, now).timers,
                        backing[i].ID) = 1
     /\ \A c \in Contents, w \in WallsOf("ok") :
          (ConsoleSchedulePost(c, "ok", w) /\ length' = length + 1)
            => /\ ArmedFor(timers', nextID) <= 1
               /\ \A t \in DOMAIN timers' :
                    (t.key = nextID /\ t.st = "armed") => t.inMap]_vars

\* C36: an update request that is refused because its scheduled_at is
\* malformed or cannot be parsed changes no field of the post: the store is
\* as it was in memory, the content of the refused request included, and so
\* is the file, now and after every later save.
RejectedUpdateChangesNothing ==
  [][\A id \in Ids, c \in Contents \cup {""} :
       UpdatePost(id, c, "bad", 0) =>
         /\ backing' = backing
         /\ length' = length
         /\ disk' = disk]_vars

\* C37: when create requests overlap on the running engine, each request
\* answers with the post it created, and each created post that is still
\* scheduled and not behind the clock ends up with its own armed entry in
\* cs.timers.
EachCreateGetsOwnEntry ==
  [][\A a \in DOMAIN adds :
       (CreateSchedule(a) /\ running) =>
         /\ backing[NewestIndex(backing, length)].ID = a.post.ID
         /\ (a.post.ScheduledAt >= now /\ CanInvoke(backing, length, a.post.ID))
              => LiveEntry(timers', a.post.ID)]_vars

====
